---- MODULE Spec2Model ----
(***************************************************************************)
(* Model of GardenLightsTransmitter.ino: two debounced push buttons and    *)
(* two potentiometers are polled in loop(); every detected change is       *)
(* written into the shared 16-byte command_buf and handed to the blocking  *)
(* RHReliableDatagram::sendtoWait.                                         *)
(*                                                                         *)
(* Bytes are one-character strings, the NUL byte is the string "NUL".      *)
(* Time is kept the way the Bounce objects use it: every clock is the      *)
(* difference millis() - <time of an earlier event>, and since the only    *)
(* comparison made with it is ">= interval", it saturates at AgeCap.       *)
(***************************************************************************)
EXTENDS Integers, Sequences, FiniteSets, TLC

\* ------------------------------------------------------------------ constants
RECEIVER_ADDRESS == 2
CHANNEL_OFFSET == 5
VALUE_OFFSET == 10
COMMAND_BUF_LEN == 16
POTS_EPS == 4
BOUNCE_INTERVAL == 10
LED_DELAY == 200
SETUP_DELAY == 1000
SNPRINTF_SIZE == 6
INT_BITS == 16
ADC_MAX == 1023

MODE_TEXT == <<"M", "O", "D", "E", " ">>
POTS_TEXT == <<"P", "O", "T", "S", " ">>

Channels == {1, 2}

\* ------------------------------------------------------------------- bounds
\* Granularity of the passage of time between two observations.
TickStep == 5
\* Saturation value of the per-press counters of detected events.
CountCap == 2
\* Clocks saturate here; no comparison in the program looks further.
AgeCap == BOUNCE_INTERVAL
\* The time a button line has rested is followed up to twice the interval.
RawCap == 2 * BOUNCE_INTERVAL

\* Raw ADC readings the environment chooses from.
PotValues == {7, 500, 504, 505, 506, ADC_MAX}
\* The two readings the pots move between when the buttons move too.
CoarsePots == {500, 506}
\* Readings of a pot that creeps: 4, 2 and 6 apart.
DriftPots == {500, 504, 506}
\* Pot 1 moves between mid-scale and the bottom of the ADC range, pot 2
\* between mid-scale and its top.
RangePots(c) == IF c = 1 THEN {0, 500} ELSE {500, ADC_MAX}
\* Channel and value arguments used to exercise the frame encoder alone.
CodecChannels == {1, 2, 42, 99999}
CodecValues == {0, 7, 506, ADC_MAX, 99999}

\* ------------------------------------------------------------ pure helpers
NUL == "NUL"
Digits == <<"0", "1", "2", "3", "4", "5", "6", "7", "8", "9">>

Abs(x) == IF x > 0 THEN x ELSE -x

Min(a, b) == IF a < b THEN a ELSE b

Saturate(t) == Min(t, AgeCap)

\* Conversion of an integer argument to the target's int.
ToInt(x) ==
  LET m == x % (2 ^ INT_BITS)
  IN IF m >= 2 ^ (INT_BITS - 1) THEN m - 2 ^ INT_BITS ELSE m

RECURSIVE NatChars(_)
NatChars(n) ==
  IF n < 10 THEN <<Digits[n + 1]>>
  ELSE NatChars(n \div 10) \o <<Digits[(n % 10) + 1]>>

IntChars(n) == IF n < 0 THEN <<"-">> \o NatChars(-n) ELSE NatChars(n)

RECURSIVE Spaces(_)
Spaces(k) == IF k <= 0 THEN <<>> ELSE <<" ">> \o Spaces(k - 1)

\* printf conversion with minimum field width w, right-justified.
PadLeft(chars, w) == Spaces(w - Len(chars)) \o chars

\* snprintf(buf + off, size, "%5s"/"%5d", ...): at most size-1 characters of
\* the formatted text are stored from offset off, followed by a NUL.
Snprintf(buf, off, size, text) ==
  LET n == Min(Len(text), size - 1)
  IN [i \in 1..Len(buf) |->
        IF i > off /\ i <= off + n THEN text[i - off]
        ELSE IF i = off + n + 1 THEN NUL
        ELSE buf[i]]

ZeroBuf == [i \in 1..COMMAND_BUF_LEN |-> NUL]

\* ----------------------------------------------------------- frame encoder
\* Mutant of sendButton: a third snprintf writes 0 into the value field.
sendButtonWithValue(buf, channel) ==
  LET b1 == Snprintf(buf, 0, SNPRINTF_SIZE, PadLeft(MODE_TEXT, 5))
      b2 == Snprintf(b1, CHANNEL_OFFSET, SNPRINTF_SIZE, PadLeft(IntChars(channel), 5))
  IN Snprintf(b2, VALUE_OFFSET, SNPRINTF_SIZE, PadLeft(IntChars(0), 5))

\* sendButton(channel): the two snprintf calls on the shared buffer.
sendButton(buf, channel) ==
  LET b1 == Snprintf(buf, 0, SNPRINTF_SIZE, PadLeft(MODE_TEXT, 5))
  IN Snprintf(b1, CHANNEL_OFFSET, SNPRINTF_SIZE, PadLeft(IntChars(channel), 5))

\* Mutant of sendPots: the value written at the channel's offset.
sendPotsValueAtChannel(buf, channel, value) ==
  LET b1 == Snprintf(buf, 0, SNPRINTF_SIZE, PadLeft(POTS_TEXT, 5))
      b2 == Snprintf(b1, CHANNEL_OFFSET, SNPRINTF_SIZE, PadLeft(IntChars(channel), 5))
  IN Snprintf(b2, CHANNEL_OFFSET, SNPRINTF_SIZE, PadLeft(IntChars(value), 5))

\* Mutant of sendPots: the value is formatted with a field width of 6.
sendPotsWide(buf, channel, value) ==
  LET b1 == Snprintf(buf, 0, SNPRINTF_SIZE, PadLeft(POTS_TEXT, 5))
      b2 == Snprintf(b1, CHANNEL_OFFSET, SNPRINTF_SIZE, PadLeft(IntChars(channel), 5))
  IN Snprintf(b2, VALUE_OFFSET, SNPRINTF_SIZE, PadLeft(IntChars(value), 6))

\* sendPots(channel, value): the three snprintf calls on the shared buffer.
sendPots(buf, channel, value) ==
  LET b1 == Snprintf(buf, 0, SNPRINTF_SIZE, PadLeft(POTS_TEXT, 5))
      b2 == Snprintf(b1, CHANNEL_OFFSET, SNPRINTF_SIZE, PadLeft(IntChars(channel), 5))
  IN Snprintf(b2, VALUE_OFFSET, SNPRINTF_SIZE, PadLeft(IntChars(value), 5))

\* Mutant of sendPotsFlash: sendPots asks for the flash as sendButton does.
sendPotsFlashOn == TRUE

\* The flash_led argument each caller passes to sendCommand.
sendButtonFlash == TRUE
sendPotsFlash == FALSE

\* ------------------------------------------------------------ frame decoder
\* The receiver's side of the wire format: bytes 0-4 are the operation code,
\* bytes 5-9 and 10-14 are decimal integers in 5-character fields.
Field(frame, off) == SubSeq(frame, off + 1, off + 5)

RECURSIVE StripSpaces(_)
StripSpaces(chars) ==
  IF chars # <<>> /\ Head(chars) = " " THEN StripSpaces(Tail(chars)) ELSE chars

IsDigit(ch) == \E d \in 1..10 : Digits[d] = ch

DigitVal(ch) == (CHOOSE d \in 1..10 : Digits[d] = ch) - 1

RECURSIVE DigitsVal(_)
DigitsVal(chars) ==
  IF chars = <<>> THEN 0
  ELSE 10 * DigitsVal(SubSeq(chars, 1, Len(chars) - 1)) + DigitVal(chars[Len(chars)])

AllDigits(chars) == chars # <<>> /\ \A i \in 1..Len(chars) : IsDigit(chars[i])

\* A numeric field parses when it is optional spaces, an optional sign and digits.
ParseField(chars) ==
  LET t == StripSpaces(chars)
  IN IF AllDigits(t) THEN [ok |-> TRUE, n |-> DigitsVal(t)]
     ELSE IF t # <<>> /\ Head(t) = "-" /\ AllDigits(Tail(t))
          THEN [ok |-> TRUE, n |-> -DigitsVal(Tail(t))]
     ELSE [ok |-> FALSE, n |-> 0]

FrameOp(frame) ==
  IF Field(frame, 0) = MODE_TEXT THEN "MODE"
  ELSE IF Field(frame, 0) = POTS_TEXT THEN "POTS"
  ELSE "UnknownOperation"

decode(frame) ==
  LET ch == ParseField(Field(frame, CHANNEL_OFFSET))
      v == ParseField(Field(frame, VALUE_OFFSET))
  IN IF FrameOp(frame) = "UnknownOperation" THEN [error |-> "UnknownOperation"]
     ELSE IF ~ch.ok \/ ~v.ok THEN [error |-> "MalformedField"]
     ELSE [op |-> FrameOp(frame), channel |-> ch.n, value |-> v.n]

\* -------------------------------------------------------------- debouncer
\* Pin levels are booleans: TRUE is HIGH (button released, LED on).
\* A Bounce object: the DEBOUNCED_STATE, UNSTABLE_STATE and STATE_CHANGED
\* flags, and age = millis() - previous_millis.
BounceNew == [debounced |-> FALSE, unstable |-> FALSE, changed |-> FALSE, age |-> 0]

\* Bounce::attach(pin): both level flags take the level read from the pin.
BounceAttach(sample) ==
  [debounced |-> sample, unstable |-> sample, changed |-> FALSE, age |-> 0]

\* Mutant of BounceUpdate: a stable reading is accepted without the interval.
BounceUpdateNoInterval(b, sample) ==
  IF sample # b.unstable
  THEN [b EXCEPT !.changed = FALSE, !.unstable = sample, !.age = 0]
  ELSE IF b.debounced # sample
       THEN [b EXCEPT !.changed = TRUE, !.debounced = sample, !.age = 0]
       ELSE [b EXCEPT !.changed = FALSE]

\* Bounce::update(), stable-interval algorithm, interval(10).
BounceUpdate(b, sample) ==
  IF sample # b.unstable
  THEN [b EXCEPT !.changed = FALSE, !.unstable = sample, !.age = 0]
  ELSE IF b.age >= BOUNCE_INTERVAL /\ b.debounced # sample
       THEN [b EXCEPT !.changed = TRUE, !.debounced = sample, !.age = 0]
       ELSE [b EXCEPT !.changed = FALSE]

\* Mutant of Fell: the debounced level is tested instead of its falling edge.
FellByLevel(b) == ~b.debounced

\* Bounce::fell()
Fell(b) == ~b.debounced /\ b.changed

\* -------------------------------------------------------------- loop helpers
\* Mutants of PotMoved: the abs() forgotten; the comparison not strict.
PotMovedSigned(v, last) == v - last > POTS_EPS
PotMovedAtEps(v, last) == Abs(v - last) >= POTS_EPS

\* Mutant of PotMoved: the band is twice as wide.
PotMovedDoubleEps(v, last) == Abs(v - last) > 2 * POTS_EPS

\* abs(val - channel_x_pot_value) > POTS_EPS
PotMoved(v, last) == Abs(v - last) > POTS_EPS

\* Mutant of NextCheck: each pot is checked right after its button.
NextCheckByChannel(p) ==
  CASE p = "fell1" -> "pot1"
    [] p = "pot1" -> "fell2"
    [] p = "fell2" -> "pot2"
    [] p = "pot2" -> "loop"

\* Mutant of CommitPot: the new reading is not stored before the send.
CommitPotSkipped(pv, c, v) == pv

\* channel_x_pot_value = val, ahead of the call of sendPots.
CommitPot(pv, c, v) == [pv EXCEPT ![c] = v]

\* The order of the four checks of loop().
NextCheck(p) ==
  CASE p = "fell1" -> "fell2"
    [] p = "fell2" -> "pot1"
    [] p = "pot1" -> "pot2"
    [] p = "pot2" -> "loop"

FellPc(c) == IF c = 1 THEN "fell1" ELSE "fell2"
PotPc(c) == IF c = 1 THEN "pot1" ELSE "pot2"

\* Mutant of AfterSend: a failed send ends in an endless delay loop, as a
\* failed init does in setup().
AfterSendHaltOnFailure(ok, next) == IF ok THEN next ELSE "halt"

\* Mutant of AfterSend: a failed send is followed by another wait for the
\* same frame.
AfterSendRetryOnFailure(ok, next) == IF ok THEN next ELSE "sendtoWait"

\* Where sendCommand goes on after sendtoWait returned ok: both branches of
\* the if fall through to the same code.
AfterSend(ok, next) == next

\* The LED levels written for an outcome of sendtoWait when flash_led is set.
LedLevels(ok) == [green |-> ok, orange |-> ~ok]

\* ------------------------------------------------------------------- state
VARIABLES
  pc,            \* position of the program
  ret,           \* where loop() continues when sendCommand returns
  flash_led,     \* sendCommand's flash_led argument
  rawButton,     \* level on each button pin (environment)
  rawPot,        \* ADC reading on each pot pin (environment)
  debouncer,     \* channel_one/two_button_debouncer
  pot_value,     \* channel_one/two_pot_value
  val,           \* loop()'s local val
  command_buf,   \* the shared 16-byte buffer
  green, orange, \* level written to the two LED pins
  tx,            \* arguments of the latest sendtoWait call
  inFlight,      \* sendtoWait calls started and not yet returned
  lastResult,    \* outcome of the latest sendtoWait call
  events,        \* history: events detected in the current loop iteration
  txSeq,         \* history: frames handed to sendtoWait in this iteration
  ledWrittenBy,  \* history: what last wrote the LED pins
  rawAge,        \* history: time since the button level last changed
  everStable,    \* history: the level has stayed put for the interval
  heldLong,      \* history: the press just released lasted twice the interval
  fellCount,     \* history: sendButton calls since the button was pressed
  debAtPress,    \* history: debounced level when the button was pressed
  lowRun,        \* history: time spanned by the current run of LOW samples
  encIn,         \* history: arguments given to the encoder alone
  watch,         \* channels whose button line the history variables follow
  radio,         \* what manager.init() and driver.setRF() returned
  potsTail,      \* history: bytes 11-14 of the latest POTS frame built
  startSample,   \* history: the pot readings taken in setup()
  iteration,     \* history: no loop() iteration yet, the first one, a later one
  lastPots,      \* history: value field of the latest POTS frame sent, per channel
  prevSample,    \* history: the readings of the last two pot checks, per channel
  watchPots      \* whether the history variables follow the pots

progVars == <<pc, ret, flash_led, debouncer, pot_value, val, command_buf,
              green, orange, tx, inFlight, lastResult>>
envVars == <<rawButton, rawPot>>
histVars == <<events, txSeq, ledWrittenBy, rawAge, everStable, heldLong,
              fellCount, debAtPress, lowRun, encIn, watch>>
potHist == <<startSample, iteration, lastPots, prevSample, watchPots>>
auxVars == <<radio, potsTail, potHist>>
vars == <<progVars, envVars, histVars, auxVars>>

NoCall == [frame |-> ZeroBuf, len |-> 0, dest |-> 0]
NoInput == [op |-> "none", channel |-> 0, value |-> 0]
\* Neither manager.init() nor driver.setRF() has been called.
NoRadio == [init |-> "uncalled", setRF |-> "uncalled"]
\* Bytes 11-14 of the zero-initialised buffer.
ZeroTail == SubSeq(ZeroBuf, VALUE_OFFSET + 2, VALUE_OFFSET + 5)
\* No reading, no frame yet.
None == -1

\* Globals are zero-initialised; buttons are released (pulled up).
InitData ==
  /\ ret = "loop"
  /\ flash_led = FALSE
  /\ rawButton = [c \in Channels |-> TRUE]
  /\ rawPot = [c \in Channels |-> 500]
  /\ debouncer = [c \in Channels |-> BounceNew]
  /\ pot_value = [c \in Channels |-> 0]
  /\ val = 0
  /\ command_buf = ZeroBuf
  /\ green = FALSE
  /\ orange = FALSE
  /\ tx = NoCall
  /\ inFlight = 0
  /\ lastResult = "none"
  /\ events = <<>>
  /\ txSeq = <<>>
  /\ ledWrittenBy = "none"
  /\ rawAge = [c \in Channels |-> 0]
  /\ everStable = [c \in Channels |-> FALSE]
  /\ heldLong = [c \in Channels |-> FALSE]
  /\ fellCount = [c \in Channels |-> 0]
  /\ debAtPress = [c \in Channels |-> FALSE]
  /\ lowRun = [c \in Channels |-> -1]
  /\ encIn = NoInput
  /\ radio = NoRadio
  /\ potsTail = ZeroTail
  /\ startSample = [c \in Channels |-> None]
  /\ iteration = "none"
  /\ lastPots = [c \in Channels |-> None]
  /\ prevSample = [c \in Channels |-> [last |-> None, before |-> None]]

\* The button lines are not followed by the history variables.
Init == InitData /\ pc = "setup" /\ watch = {} /\ watchPots = FALSE

\* Both button lines are followed by the history variables.
InitButtons == InitData /\ pc = "setup" /\ watch = Channels /\ watchPots = FALSE

\* The pots are followed by the history variables.
InitPots == InitData /\ pc = "setup" /\ watch = {} /\ watchPots = TRUE

\* The encoder alone: the program is not run, only its two frame builders.
InitCodec == InitData /\ pc = "encode" /\ watch = {} /\ watchPots = FALSE

\* A history value is recorded only for a watched channel.
Rec(c, new, old) == IF c \in watch THEN new ELSE old

\* A history value of the pots is recorded only when they are followed.
RecP(new, old) == IF watchPots THEN new ELSE old

\* --------------------------------------------------------- passage of time
AgedBounce(d) == [c \in Channels |-> [debouncer[c] EXCEPT !.age = Saturate(@ + d)]]
AgedRaw(d) == [c \in Channels |-> Rec(c, Min(rawAge[c] + d, RawCap), rawAge[c])]
AgedLow(d) ==
  [c \in Channels |-> IF lowRun[c] < 0 THEN lowRun[c] ELSE Saturate(lowRun[c] + d)]
\* The run of LOW samples after a poll that read the pins, d units later.
PolledLow(d) ==
  [c \in Channels |->
     Rec(c, IF rawButton[c] THEN -1 ELSE IF lowRun[c] < 0 THEN 0 ELSE AgedLow(d)[c],
         lowRun[c])]

\* d units of time pass: every clock advances.
TimePasses(d) ==
  /\ rawAge' = AgedRaw(d)
  /\ everStable' = [c \in Channels |-> everStable[c] \/ AgedRaw(d)[c] >= BOUNCE_INTERVAL]

\* ------------------------------------------------------------------ setup()
\* What the two calls returned: setRF is called only when init succeeded.
RadioAfter(initOk, rfOk) ==
  [init |-> IF initOk THEN "true" ELSE "false",
   setRF |-> IF ~initOk THEN "uncalled" ELSE IF rfOk THEN "true" ELSE "false"]

\* Mutant of SetupOk: the result of setRF is not looked at.
SetupOkIgnoringSetRF(initOk, rfOk) == initOk

\* setup() gets past both endless loops only when both calls returned true.
SetupOk(initOk, rfOk) == initOk /\ rfOk

\* Mutant of SetupPots: the pots are not read in setup().
SetupPotsUnread(pv, raw) == pv

\* channel_one/two_pot_value = analogRead( ... ) of lines 113-114.
SetupPots(pv, raw) == [c \in Channels |-> raw[c]]

\* Lines 78-120: init and setRF, attach of the debouncers, first pot reads,
\* first LED pattern. Either failure ends in the endless delay loop.
Setup(initOk, rfOk) ==
  /\ pc = "setup"
  /\ radio' = RadioAfter(initOk, rfOk)
  /\ IF SetupOk(initOk, rfOk)
     THEN /\ debouncer' = [c \in Channels |-> BounceAttach(rawButton[c])]
          /\ lowRun' = [c \in Channels |-> Rec(c, IF rawButton[c] THEN -1 ELSE 0, lowRun[c])]
          /\ pot_value' = SetupPots(pot_value, rawPot)
          /\ startSample' = RecP(rawPot, startSample)
          /\ green' = FALSE
          /\ orange' = TRUE
          /\ ledWrittenBy' = "setup"
          /\ pc' = "setup_led1"
     ELSE /\ pc' = "halt"
          /\ UNCHANGED <<debouncer, lowRun, pot_value, startSample, green, orange,
                         ledWrittenBy>>
  /\ UNCHANGED <<ret, flash_led, val, command_buf, tx, inFlight, lastResult>>
  /\ UNCHANGED <<potsTail, iteration, lastPots, prevSample, watchPots>>
  /\ UNCHANGED <<envVars, events, txSeq, rawAge, everStable, heldLong, fellCount,
                 debAtPress, encIn, watch>>

\* Lines 122-125: delay(1000), then green on and orange off.
SetupBlinkGreen ==
  /\ pc = "setup_led1"
  /\ debouncer' = AgedBounce(SETUP_DELAY)
  /\ lowRun' = AgedLow(SETUP_DELAY)
  /\ TimePasses(SETUP_DELAY)
  /\ green' = TRUE
  /\ orange' = FALSE
  /\ pc' = "setup_led2"
  /\ UNCHANGED <<ret, flash_led, pot_value, val, command_buf, tx, inFlight, lastResult>>
  /\ UNCHANGED <<envVars, events, txSeq, ledWrittenBy, heldLong, fellCount,
                 debAtPress, encIn, watch, auxVars>>

\* Lines 127-130: delay(1000), then both LEDs off.
SetupBlinkOff ==
  /\ pc = "setup_led2"
  /\ debouncer' = AgedBounce(SETUP_DELAY)
  /\ lowRun' = AgedLow(SETUP_DELAY)
  /\ TimePasses(SETUP_DELAY)
  /\ green' = FALSE
  /\ orange' = FALSE
  /\ pc' = "setup_led3"
  /\ UNCHANGED <<ret, flash_led, pot_value, val, command_buf, tx, inFlight, lastResult>>
  /\ UNCHANGED <<envVars, events, txSeq, ledWrittenBy, heldLong, fellCount,
                 debAtPress, encIn, watch, auxVars>>

\* Lines 132-136: the last delay(1000); setup() returns and loop() is entered.
\* The history of the button lines starts here, with the presses made while
\* loop() runs: a line that kept bouncing through the delays of setup()
\* leaves the program in the same state.
SetupDone ==
  /\ pc = "setup_led3"
  /\ debouncer' = AgedBounce(SETUP_DELAY)
  /\ lowRun' = AgedLow(SETUP_DELAY)
  /\ rawAge' = [c \in Channels |-> 0]
  /\ everStable' = [c \in Channels |-> FALSE]
  /\ heldLong' = [c \in Channels |-> FALSE]
  /\ debAtPress' = [c \in Channels |-> FALSE]
  /\ pc' = "loop"
  /\ UNCHANGED <<ret, flash_led, pot_value, val, command_buf, green, orange, tx,
                 inFlight, lastResult>>
  /\ UNCHANGED <<envVars, events, txSeq, ledWrittenBy, fellCount, encIn, watch,
                 auxVars>>

\* Lines 86-88 and 95-96: while (true) delay(1000). Only time passes.
Halt ==
  /\ pc = "halt"
  /\ debouncer' = AgedBounce(SETUP_DELAY)
  /\ lowRun' = AgedLow(SETUP_DELAY)
  /\ TimePasses(SETUP_DELAY)
  /\ UNCHANGED <<pc, ret, flash_led, pot_value, val, command_buf, green, orange,
                 tx, inFlight, lastResult>>
  /\ UNCHANGED <<envVars, events, txSeq, ledWrittenBy, heldLong, fellCount,
                 debAtPress, encIn, watch, auxVars>>

\* ------------------------------------------------------------------- loop()
\* Lines 144-148: a new iteration starts d units after the previous poll and
\* both debouncers are updated from their pins.
LoopUpdate(d) ==
  /\ pc = "loop"
  /\ debouncer' = [c \in Channels |-> BounceUpdate(AgedBounce(d)[c], rawButton[c])]
  /\ lowRun' = PolledLow(d)
  /\ TimePasses(d)
  /\ val' = 0
  /\ events' = <<>>
  /\ txSeq' = <<>>
  /\ pc' = "fell1"
  /\ UNCHANGED <<ret, flash_led, pot_value, command_buf, green, orange, tx,
                 inFlight, lastResult>>
  /\ iteration' = RecP(IF iteration = "none" THEN "first" ELSE "later", iteration)
  /\ UNCHANGED <<envVars, ledWrittenBy, heldLong, fellCount, debAtPress, encIn, watch>>
  /\ UNCHANGED <<radio, potsTail, startSample, lastPots, prevSample, watchPots>>

\* sendCommand up to the call of manager.sendtoWait (lines 187-192).
StartSend(buf, flash, back) ==
  /\ command_buf' = buf
  /\ tx' = [frame |-> buf, len |-> COMMAND_BUF_LEN, dest |-> RECEIVER_ADDRESS]
  /\ inFlight' = inFlight + 1
  /\ txSeq' = Append(txSeq, buf)
  /\ flash_led' = flash
  /\ ret' = back
  /\ pc' = "sendtoWait"

\* Lines 151-157: if ( debouncer.fell() ) sendButton(c).
CheckButton(c) ==
  /\ pc = FellPc(c)
  /\ IF Fell(debouncer[c])
     THEN /\ StartSend(sendButton(command_buf, c), sendButtonFlash, NextCheck(pc))
          /\ events' = Append(events, [op |-> "MODE", channel |-> c, value |-> 0])
          /\ fellCount' = [fellCount EXCEPT ![c] = Rec(c, Min(@ + 1, CountCap), @)]
     ELSE /\ pc' = NextCheck(pc)
          /\ UNCHANGED <<command_buf, tx, inFlight, txSeq, flash_led, ret, events,
                         fellCount>>
  /\ UNCHANGED <<debouncer, pot_value, val, green, orange, lastResult>>
  /\ UNCHANGED <<envVars, ledWrittenBy, rawAge, everStable, heldLong, debAtPress,
                 lowRun, encIn, watch, auxVars>>

\* Lines 159-168: read the pot, compare with the last reported value, and
\* on a change store it and call sendPots(c, channel_x_pot_value).
CheckPot(c) ==
  /\ pc = PotPc(c)
  /\ val' = rawPot[c]
  /\ prevSample' = [prevSample EXCEPT ![c] = RecP([last |-> val', before |-> @.last], @)]
  /\ IF PotMoved(val', pot_value[c])
     THEN /\ pot_value' = CommitPot(pot_value, c, val')
          /\ StartSend(sendPots(command_buf, c, pot_value'[c]), sendPotsFlash,
                       NextCheck(pc))
          /\ events' = Append(events, [op |-> "POTS", channel |-> c, value |-> val'])
          /\ potsTail' = SubSeq(command_buf', VALUE_OFFSET + 2, VALUE_OFFSET + 5)
          /\ lastPots' = [lastPots EXCEPT
                            ![c] = RecP(ParseField(Field(tx'.frame, VALUE_OFFSET)).n, @)]
     ELSE /\ pc' = NextCheck(pc)
          /\ UNCHANGED <<pot_value, command_buf, tx, inFlight, txSeq, flash_led, ret,
                         events, potsTail, lastPots>>
  /\ UNCHANGED <<debouncer, green, orange, lastResult>>
  /\ UNCHANGED <<envVars, ledWrittenBy, rawAge, everStable, heldLong, fellCount,
                 debAtPress, lowRun, encIn, watch>>
  /\ UNCHANGED <<radio, startSample, iteration, watchPots>>

\* ------------------------------------------------------------ sendCommand()
\* Lines 192-210: sendtoWait returns ok; with flash_led the LEDs are written
\* and delay(200) runs, without it nothing but logging happens.
SendReturn(ok) ==
  /\ pc = "sendtoWait"
  /\ inFlight' = inFlight - 1
  /\ lastResult' = IF ok THEN "Delivered" ELSE "Failed"
  /\ IF flash_led
     THEN /\ green' = LedLevels(ok).green
          /\ orange' = LedLevels(ok).orange
          /\ ledWrittenBy' = FrameOp(tx.frame)
          /\ debouncer' = AgedBounce(LED_DELAY)
          /\ lowRun' = AgedLow(LED_DELAY)
          /\ TimePasses(LED_DELAY)
          /\ pc' = AfterSend(ok, "led_off")
     ELSE /\ pc' = AfterSend(ok, ret)
          /\ UNCHANGED <<green, orange, ledWrittenBy, debouncer, lowRun, rawAge,
                         everStable>>
  /\ UNCHANGED <<ret, flash_led, pot_value, val, command_buf, tx>>
  /\ UNCHANGED <<envVars, events, txSeq, heldLong, fellCount, debAtPress, encIn, watch,
                 auxVars>>

\* Mutant of LedOff: sendCommand returns without its closing writes.
LedOffSkipped ==
  /\ pc = "led_off"
  /\ pc' = ret
  /\ UNCHANGED <<ret, flash_led, debouncer, pot_value, val, command_buf, tx,
                 inFlight, lastResult, green, orange>>
  /\ UNCHANGED <<envVars, histVars, auxVars>>

\* Lines 212-215: the closing writes of a flashed send; sendCommand returns.
LedOff ==
  /\ pc = "led_off"
  /\ green' = FALSE
  /\ orange' = FALSE
  /\ pc' = ret
  /\ UNCHANGED <<ret, flash_led, debouncer, pot_value, val, command_buf, tx,
                 inFlight, lastResult>>
  /\ UNCHANGED <<envVars, histVars, auxVars>>

\* -------------------------------------------------------------- environment
\* Mutant of Elapse: the debouncers are updated from their pins while
\* sendtoWait waits.
ElapsePolling ==
  /\ pc = "sendtoWait"
  /\ debouncer' = [c \in Channels |-> BounceUpdate(AgedBounce(TickStep)[c], rawButton[c])]
  /\ lowRun' = AgedLow(TickStep)
  /\ TimePasses(TickStep)
  /\ UNCHANGED <<pc, ret, flash_led, pot_value, val, command_buf, green, orange,
                 tx, inFlight, lastResult>>
  /\ UNCHANGED <<envVars, events, txSeq, ledWrittenBy, heldLong, fellCount,
                 debAtPress, encIn, watch, auxVars>>

\* Time passes while sendtoWait blocks (retries and timeouts of the radio layer).
Elapse ==
  /\ pc = "sendtoWait"
  /\ debouncer' = AgedBounce(TickStep)
  /\ lowRun' = AgedLow(TickStep)
  /\ TimePasses(TickStep)
  /\ UNCHANGED <<pc, ret, flash_led, pot_value, val, command_buf, green, orange,
                 tx, inFlight, lastResult>>
  /\ UNCHANGED <<envVars, events, txSeq, ledWrittenBy, heldLong, fellCount,
                 debAtPress, encIn, watch, auxVars>>

\* The button of channel c is pressed (HIGH to LOW) or released.
ButtonToggle(c) ==
  /\ rawButton' = [rawButton EXCEPT ![c] = ~@]
  /\ rawAge' = [rawAge EXCEPT ![c] = 0]
  /\ IF rawButton[c]
     THEN /\ fellCount' = [fellCount EXCEPT ![c] = 0]
          /\ debAtPress' = [debAtPress EXCEPT ![c] = Rec(c, debouncer[c].debounced, @)]
          /\ heldLong' = [heldLong EXCEPT ![c] = FALSE]
     ELSE /\ heldLong' = [heldLong EXCEPT ![c] = Rec(c, rawAge[c] >= RawCap, @)]
          /\ UNCHANGED <<fellCount, debAtPress>>
  /\ UNCHANGED <<progVars, rawPot, events, txSeq, ledWrittenBy, everStable, lowRun,
                 encIn, watch, auxVars>>

\* The pot of channel c is turned to reading v.
PotTurn(c, v) ==
  /\ v # rawPot[c]
  /\ rawPot' = [rawPot EXCEPT ![c] = v]
  /\ UNCHANGED <<progVars, rawButton, histVars, auxVars>>

\* ------------------------------------------------------- the encoder alone
\* sendButton(channel) as called for an (operation, channel, value) triple:
\* the arguments are converted to int, the value has nowhere to go.
EncodeMode(c, v) ==
  /\ pc = "encode"
  /\ command_buf' = sendButton(command_buf, ToInt(c))
  /\ encIn' = [op |-> "MODE", channel |-> c, value |-> v]
  /\ UNCHANGED <<pc, ret, flash_led, debouncer, pot_value, val, green, orange, tx,
                 inFlight, lastResult>>
  /\ UNCHANGED <<envVars, events, txSeq, ledWrittenBy, rawAge, everStable, heldLong,
                 fellCount, debAtPress, lowRun, watch, auxVars>>

\* sendPots(channel, value) as called for an (operation, channel, value) triple.
EncodePots(c, v) ==
  /\ pc = "encode"
  /\ command_buf' = sendPots(command_buf, ToInt(c), ToInt(v))
  /\ encIn' = [op |-> "POTS", channel |-> c, value |-> v]
  /\ UNCHANGED <<pc, ret, flash_led, debouncer, pot_value, val, green, orange, tx,
                 inFlight, lastResult>>
  /\ UNCHANGED <<envVars, events, txSeq, ledWrittenBy, rawAge, everStable, heldLong,
                 fellCount, debAtPress, lowRun, watch, auxVars>>

\* ---------------------------------------------------------- specifications
\* The steps of setup() and loop().
PollSteps ==
  \/ \E initOk, rfOk \in BOOLEAN : Setup(initOk, rfOk)
  \/ SetupBlinkGreen
  \/ SetupBlinkOff
  \/ SetupDone
  \/ Halt
  \/ \E d \in {0, TickStep} : LoopUpdate(d)
  \/ \E c \in Channels : CheckButton(c)
  \/ \E c \in Channels : CheckPot(c)

\* The steps of the program other than the return of sendtoWait.
ProgramSteps ==
  \/ PollSteps
  \/ LedOff

Program ==
  \/ ProgramSteps
  \/ \E ok \in BOOLEAN : SendReturn(ok)

\* Both buttons and both pots move; the pots between two readings.
Next ==
  \/ Program
  \/ Elapse
  \/ \E c \in Channels : ButtonToggle(c)
  \/ \E c \in Channels, v \in CoarsePots : PotTurn(c, v)

Spec == Init /\ [][Next]_vars

\* Only the buttons move, and the history variables follow their lines.
NextButtons ==
  \/ Program
  \/ Elapse
  \/ \E c \in Channels : ButtonToggle(c)

SpecButtons == InitButtons /\ [][NextButtons]_vars

\* Only the pots move, over all of PotValues; no send is flashed.
NextPots ==
  \/ PollSteps
  \/ \E ok \in BOOLEAN : SendReturn(ok)
  \/ Elapse
  \/ \E c \in Channels, v \in PotValues : PotTurn(c, v)

SpecPots == Init /\ [][NextPots]_vars

\* Only the pots move, between readings a few units apart, and the history
\* variables follow them; the time a send takes plays no part.
NextDrift ==
  \/ PollSteps
  \/ \E ok \in BOOLEAN : SendReturn(ok)
  \/ \E c \in Channels, v \in DriftPots : PotTurn(c, v)

SpecDrift == InitPots /\ [][NextDrift]_vars

\* The frame builders applied to arbitrary arguments, in any order.
NextCodec ==
  \/ \E c \in CodecChannels, v \in CodecValues : EncodeMode(c, v)
  \/ \E c \in CodecChannels, v \in CodecValues : EncodePots(c, v)

SpecCodec == InitCodec /\ [][NextCodec]_vars

\* The datagram collaborator never gets an acknowledgment: sendtoWait always
\* returns false. The processor keeps executing the program, and sendtoWait
\* returns after its bounded retries. Button 1 and both pots move.
NextFail ==
  \/ ProgramSteps
  \/ SendReturn(FALSE)
  \/ Elapse
  \/ ButtonToggle(1)
  \/ \E c \in Channels, v \in CoarsePots : PotTurn(c, v)

ProgramFail == ProgramSteps \/ SendReturn(FALSE)

SpecFail == Init /\ [][NextFail]_vars /\ WF_vars(ProgramFail)

\* Both buttons move and the pots go to the two ends of the ADC range; the
\* time a send takes plays no part.
NextRange ==
  \/ Program
  \/ \E c \in Channels : ButtonToggle(c)
  \/ \E c \in Channels : \E v \in RangePots(c) : PotTurn(c, v)

SpecRange == Init /\ [][NextRange]_vars

\* The processor keeps executing the program and every sendtoWait call
\* returns, with either outcome. Button 1 and both pots move.
NextLive ==
  \/ Program
  \/ Elapse
  \/ ButtonToggle(1)
  \/ \E c \in Channels, v \in CoarsePots : PotTurn(c, v)

SpecLive == Init /\ [][NextLive]_vars /\ WF_vars(Program)

\* ------------------------------------------------------ expected wire format
\* The decimal digit of n at position i of a 5-character field (1 = leftmost).
Pow10(k) == IF k = 0 THEN 1 ELSE IF k = 1 THEN 10 ELSE IF k = 2 THEN 100
            ELSE IF k = 3 THEN 1000 ELSE 10000

\* n in 0..99999 right-justified in 5 characters, padded with spaces.
Dec5(n) ==
  [i \in 1..5 |->
     IF i < 5 /\ n < Pow10(5 - i) THEN " " ELSE Digits[((n \div Pow10(5 - i)) % 10) + 1]]

\* The 15 meaningful bytes of the frame for (operation text, channel, value).
Wire(text, c, v) == text \o Dec5(c) \o Dec5(v)

Payload(frame) == SubSeq(frame, 1, 15)

\* ------------------------------------------------------------------ claims
\* A step of the program that leaves position p.
Leaves(p) == pc = p /\ pc' # p

PotEvent(c, v) == [op |-> "POTS", channel |-> c, value |-> v]
ModeEvent(c) == [op |-> "MODE", channel |-> c, value |-> 0]

\* C5: a poll of channel c that reads a raw value more than 4 away from the
\* last reported value produces exactly one PotChanged event carrying that raw
\* value, hands one frame to the transport and makes the raw value the last
\* reported one; a poll that reads the last reported value again produces
\* no event.
C5_HysteresisCorrect ==
  [][\A c \in Channels :
       Leaves(PotPc(c)) =>
         /\ (rawPot[c] - pot_value[c] > 4 \/ pot_value[c] - rawPot[c] > 4) =>
              /\ events' = Append(events, PotEvent(c, rawPot[c]))
              /\ Len(txSeq') = Len(txSeq) + 1
              /\ pot_value'[c] = rawPot[c]
              /\ pc' = "sendtoWait"
         /\ rawPot[c] = pot_value[c] =>
              /\ events' = events
              /\ txSeq' = txSeq
              /\ pc' # "sendtoWait"]_vars

\* Pot 1 went from 500 to 506 and from 506 to 500: each move produced its one
\* event, and the iteration that saw the second one is over.
C5_Witness ==
  /\ pc = "loop"
  /\ events = <<PotEvent(1, 500)>>
  /\ pot_value[1] = 500
  /\ rawPot[1] = 500
  /\ Field(command_buf, VALUE_OFFSET) = <<" ", " ", "5", "0", "0">>
  /\ lastResult # "none"

\* C6: a poll of channel c that reads a raw value at most 4 away from the last
\* reported value (exactly 4 included) produces no event, does not call
\* sendPots and leaves the last reported value as it was.
C6_HysteresisSuppress ==
  [][\A c \in Channels :
       (Leaves(PotPc(c)) /\ rawPot[c] - pot_value[c] <= 4
                         /\ pot_value[c] - rawPot[c] <= 4) =>
         /\ events' = events
         /\ txSeq' = txSeq
         /\ command_buf' = command_buf
         /\ inFlight' = inFlight
         /\ pot_value' = pot_value
         /\ pc' # "sendtoWait"]_vars

\* Pot 1 was reported at 500 and has just been read at 504: nothing was sent.
C6_Witness ==
  /\ pc = "pot2"
  /\ val = 504
  /\ pot_value[1] = 500
  /\ events = <<>>
  /\ txSeq = <<>>

\* C8: the frame handed to the transport for a PotChanged event {c, v} is
\* "POTS ", then c and then v, each in decimal, right-justified and
\* space-padded in 5 characters; v is the raw reading that was polled.
C8_PotsFrame ==
  /\ Len(txSeq) = Len(events)
  /\ \A i \in 1..Len(events) :
       events[i].op = "POTS" =>
         /\ i <= Len(txSeq)
         /\ Payload(txSeq[i]) = Wire(POTS_TEXT, events[i].channel, events[i].value)
         /\ events[i].value = pot_value[events[i].channel]
  /\ (pc = "sendtoWait" /\ events # <<>> /\ events[Len(events)].op = "POTS") =>
       /\ tx.frame = txSeq[Len(txSeq)]
       /\ events[Len(events)].value = val

\* Pot 1 read 500 at startup and 506 now: "POTS " "    1" "  506" is in flight.
C8_Witness ==
  /\ pc = "sendtoWait"
  /\ lastResult = "none"
  /\ events = <<PotEvent(1, 506)>>
  /\ Payload(tx.frame) = <<"P", "O", "T", "S", " ", " ", " ", " ", " ", "1",
                           " ", " ", "5", "0", "6">>

\* Position of a frame in the fixed order button 1, button 2, pot 1, pot 2.
Rank(frame) ==
  (IF FrameOp(frame) = "MODE" THEN 0 ELSE 2) + ParseField(Field(frame, CHANNEL_OFFSET)).n

\* C2: within one loop iteration the frames are handed to the transport in
\* the order button 1, button 2, pot 1, pot 2, one frame per detected event;
\* a call is in flight only while the program waits in sendtoWait, and never
\* two; when exactly button 1 and pot 2 changed in a cycle, two frames are
\* sent, the MODE frame of channel 1 first and the POTS frame of channel 2 second.
C2_Sequential ==
  /\ inFlight \in {0, 1}
  /\ inFlight = 1 <=> pc = "sendtoWait"
  /\ Len(txSeq) = Len(events)
  /\ \A i \in 1..Len(txSeq) :
       /\ FrameOp(txSeq[i]) = events[i].op
       /\ ParseField(Field(txSeq[i], CHANNEL_OFFSET)).n = events[i].channel
  /\ \A i, j \in 1..Len(txSeq) : i < j => Rank(txSeq[i]) < Rank(txSeq[j])
  /\ (Len(events) = 2 /\ ModeEvent(1) \in {events[i] : i \in 1..2}
        /\ \E v \in CoarsePots : PotEvent(2, v) \in {events[i] : i \in 1..2}) =>
       /\ FrameOp(txSeq[1]) = "MODE"
       /\ Field(txSeq[1], CHANNEL_OFFSET) = <<" ", " ", " ", " ", "1">>
       /\ FrameOp(txSeq[2]) = "POTS"
       /\ Field(txSeq[2], CHANNEL_OFFSET) = <<" ", " ", " ", " ", "2">>

\* An iteration in which button 1 fell and pot 2 moved to 506 is over.
C2_Witness ==
  /\ pc = "loop"
  /\ events = <<ModeEvent(1), PotEvent(2, 506)>>
  /\ Len(txSeq) = 2
  /\ inFlight = 0

\* C10: only the delivery of a MODE frame writes the indicator: when
\* sendtoWait returns for a MODE frame, Delivered puts green on and orange off
\* and Failed puts orange on and green off; when it returns for a POTS frame,
\* neither output is written, whatever the outcome.
C10_IndicatorAsymmetry ==
  /\ [](ledWrittenBy # "POTS")
  /\ [][Leaves("sendtoWait") =>
          IF FrameOp(tx.frame) = "MODE"
          THEN /\ ledWrittenBy' = "MODE"
               /\ lastResult' = "Delivered" => (green' /\ ~orange')
               /\ lastResult' = "Failed" => (orange' /\ ~green')
               /\ lastResult' \in {"Delivered", "Failed"}
          ELSE /\ FrameOp(tx.frame) = "POTS"
               /\ ledWrittenBy' = ledWrittenBy
               /\ green' = green
               /\ orange' = orange
               /\ pc' # "led_off"]_vars

\* A POTS frame has just failed after a MODE frame was delivered or failed:
\* the indicator was last written for the MODE frame.
C10_Witness ==
  /\ inFlight = 0
  /\ FrameOp(tx.frame) = "POTS"
  /\ lastResult = "Failed"
  /\ ledWrittenBy = "MODE"
  /\ ~green
  /\ ~orange

\* C7: for every ModeChange event on channel c the transport is called with
\* destination 2 and the frame "MODE ", c right-justified in 5 characters, and
\* the value field "    0".
C7_ModeFrame ==
  \A i \in 1..Len(events) :
    events[i].op = "MODE" =>
      /\ i <= Len(txSeq)
      /\ tx.dest = RECEIVER_ADDRESS
      /\ Payload(txSeq[i]) = Wire(MODE_TEXT, events[i].channel, 0)

\* C9: decoding the frame built for (operation, channel, value) gives the
\* triple back, with no MalformedField or UnknownOperation error.
C9_RoundTrip ==
  encIn.op # "none" => decode(command_buf) = encIn

\* The events of the current iteration include a ModeChange of channel c.
ModeDetected(c) == \E i \in 1..Len(events) : events[i] = ModeEvent(c)

\* C3 as stated, for the presses most in its favour: a press that began with
\* the button debounced as released and was held for at least the 10-unit
\* interval (here: for twice the interval or more) has produced exactly one
\* ModeChange by the time it is released and the iteration is over.
C3_ExactlyOnePerHold ==
  \A c \in Channels :
    (pc = "loop" /\ rawButton[c] /\ heldLong[c] /\ debAtPress[c]) => fellCount[c] = 1

\* C3, amended: a press produces at most one ModeChange, and none from a poll
\* that sampled the button released; it has produced exactly one once the
\* debouncer has accepted it, which it does at the first poll at which the
\* polls have sampled the button LOW over a span of at least 10 units.
C3_AtMostOnePerPress ==
  \A c \in Channels :
    /\ fellCount[c] <= 1
    /\ ModeDetected(c) => lowRun[c] >= 0
    /\ (pc = "loop" /\ ~rawButton[c] /\ debAtPress[c] /\ ~debouncer[c].debounced) =>
         fellCount[c] = 1
    /\ (pc = "fell1" /\ lowRun[c] >= 10) => ~debouncer[c].debounced

\* Button 1 was pressed while debounced as released, accepted, and an
\* iteration later it is still held: one event, and none in this iteration.
C3_Witness ==
  /\ pc = "loop"
  /\ ~rawButton[1]
  /\ debAtPress[1]
  /\ ~debouncer[1].debounced
  /\ ~debouncer[1].changed
  /\ fellCount[1] = 1
  /\ events = <<>>
  /\ lastResult # "none"

\* C4 as stated: a ModeChange is produced only if the raw level has at some
\* time stayed at one value for the 10-unit interval.
C4_RawSuppress ==
  \A c \in Channels : ModeDetected(c) => everStable[c]

\* C4, amended: a ModeChange is produced only when the polls have sampled the
\* button LOW, poll after poll, over a span of at least 10 units; a level
\* that the polls never see LOW for that long produces none.
C4_SampledSuppress ==
  \A c \in Channels : ModeDetected(c) => lowRun[c] >= 10

\* Button 1 has never rested for the interval, the polls saw it LOW for less
\* than the interval and then HIGH again, and nothing was produced.
C4_Witness ==
  /\ pc = "fell2"
  /\ ~everStable[1]
  /\ lowRun[1] = -1
  /\ debouncer[1].unstable
  /\ debouncer[1].age = 0
  /\ debouncer[1].debounced
  /\ rawAge[1] > 0
  /\ events = <<>>

\* Positions of the program inside loop() and the functions it calls.
InLoop == pc \in {"loop", "fell1", "fell2", "pot1", "pot2", "sendtoWait", "led_off"}

\* The debounce flags of both channels.
BounceFlags ==
  [c \in Channels |-> <<debouncer[c].debounced, debouncer[c].unstable,
                        debouncer[c].changed>>]

\* C1: with a collaborator whose sendtoWait always returns false, once
\* startup has succeeded the program never leaves loop() or halts; every
\* sendCommand call reports Failed, and from every position, a pending
\* sendtoWait included, the loop comes back to its next poll; a failed
\* return leaves the debounce flags, the pot
\* baselines and the place where loop() continues as a delivery would, with
\* the debounce clocks advanced by the same indicator delay; and after a
\* failure every detected button fell-edge and every pot reading more than 4
\* from the baseline still starts a new transport call.
C1_FailureResilience ==
  /\ [][InLoop => InLoop']_vars
  /\ [][Leaves("sendtoWait") =>
          /\ lastResult' = "Failed"
          /\ BounceFlags' = BounceFlags
          /\ \A c \in Channels :
               debouncer'[c].age =
                 IF flash_led THEN Min(debouncer[c].age + 200, AgeCap)
                 ELSE debouncer[c].age
          /\ pot_value' = pot_value
          /\ ret' = ret
          /\ pc' = IF flash_led THEN "led_off" ELSE ret]_vars
  /\ [][\A c \in Channels :
          (lastResult = "Failed" /\ Leaves(PotPc(c))
             /\ (rawPot[c] - pot_value[c] > 4 \/ pot_value[c] - rawPot[c] > 4)) =>
            (pc' = "sendtoWait" /\ inFlight' = 1 /\ FrameOp(tx'.frame) = "POTS")]_vars
  /\ [][\A c \in Channels :
          (lastResult = "Failed" /\ Leaves(FellPc(c)) /\ Fell(debouncer[c])) =>
            (pc' = "sendtoWait" /\ inFlight' = 1 /\ FrameOp(tx'.frame) = "MODE"
               /\ Field(tx'.frame, CHANNEL_OFFSET) = Dec5(c))]_vars
  /\ InLoop ~> (pc = "loop")

\* After a failed send a new transport call is in flight, for a button event
\* detected in an iteration that follows the failure.
C1_Witness ==
  /\ pc = "sendtoWait"
  /\ lastResult = "Failed"
  /\ events = <<ModeEvent(1)>>
  /\ inFlight = 1
  /\ SubSeq(command_buf, VALUE_OFFSET + 2, VALUE_OFFSET + 5) = <<" ", "5", "0", "6">>

\* The program is in one of the endless delay loops of setup().
Halted == pc = "halt"

\* One of the two startup calls returned false.
RadioFailed == radio.init = "false" \/ radio.setRF = "false"

\* C11: setup() ends in the endless delay loop exactly when init() returned
\* false, or init() returned true and setRF() returned false; from then on
\* the program stays there whatever the buttons and pots do: loop() is not
\* entered, the debouncers are never attached or updated, no pot is read,
\* nothing is written to the buffer or handed to sendtoWait, and neither LED
\* is written.
C11_FatalStartup ==
  /\ [][Leaves("setup") => (pc' = "halt" <=> RadioFailed')]_vars
  /\ [](RadioFailed => Halted)
  /\ [][Halted => Halted']_vars
  /\ [](Halted =>
          /\ BounceFlags = [c \in Channels |-> <<FALSE, FALSE, FALSE>>]
          /\ pot_value = [c \in Channels |-> 0]
          /\ val = 0
          /\ command_buf = ZeroBuf
          /\ tx = NoCall
          /\ inFlight = 0
          /\ lastResult = "none"
          /\ events = <<>>
          /\ txSeq = <<>>
          /\ ~green
          /\ ~orange
          /\ ledWrittenBy = "none")

\* setRF() returned false after init() returned true; since then a second
\* has passed, button 1 is held and pot 1 was turned, and nothing was done.
C11_Witness ==
  /\ Halted
  /\ radio = [init |-> "true", setRF |-> "false"]
  /\ ~rawButton[1]
  /\ rawPot[1] = 506
  /\ debouncer[1].age = AgeCap
  /\ debouncer[1] = [BounceNew EXCEPT !.age = AgeCap]
  /\ pot_value[1] = 0

\* C12: a sendtoWait call starts exactly when an event is detected, one call
\* per event, with the frame built for it; its return, Delivered or Failed,
\* ends the call and starts no other: the program leaves sendtoWait with the
\* buffer, the call arguments and the lists of events and frames as they
\* were. The frames handed over in an iteration are as many as its events.
C12_SingleAttempt ==
  /\ [](Len(txSeq) = Len(events) /\ inFlight \in {0, 1})
  /\ [][(inFlight' > inFlight) <=> (Len(events') > Len(events))]_vars
  /\ [][inFlight' > inFlight =>
          /\ pc \in {"fell1", "fell2", "pot1", "pot2"}
          /\ Len(events') = Len(events) + 1
          /\ txSeq' = Append(txSeq, tx'.frame)
          /\ tx'.frame = command_buf'
          /\ pc' = "sendtoWait"]_vars
  /\ [][inFlight' < inFlight =>
          /\ pc = "sendtoWait"
          /\ pc' # "sendtoWait"
          /\ lastResult' \in {"Delivered", "Failed"}
          /\ inFlight' = 0
          /\ events' = events
          /\ txSeq' = txSeq
          /\ tx' = tx
          /\ command_buf' = command_buf]_vars
  /\ [][(pc = "sendtoWait" /\ pc' = "sendtoWait") => inFlight' = inFlight]_vars

\* The POTS frame of channel 1 with reading 506 failed; in a later iteration
\* pot 1 was read at 506 again and no call was made for it.
C12_Witness ==
  /\ pc = "pot2"
  /\ events = <<>>
  /\ txSeq = <<>>
  /\ lastResult = "Failed"
  /\ Payload(tx.frame) = Wire(POTS_TEXT, 1, 506)
  /\ val = 506
  /\ rawPot[1] = 506
  /\ inFlight = 0

\* The positions of loop() at which an input is about to be sampled or
\* tested.
Polling == pc \in {"loop", "fell1", "fell2", "pot1", "pot2"}

\* C13: from the start of a sendtoWait call to its return, the return
\* included, no debounce flag and no pot baseline changes and no pot is read,
\* whatever the buttons and pots do meanwhile; the loop polls only when no
\* call is in flight; and, sendtoWait returning, every call that was started
\* is over before the loop goes on.
C13_BlockingSend ==
  /\ [][pc = "sendtoWait" =>
          /\ BounceFlags' = BounceFlags
          /\ pot_value' = pot_value
          /\ val' = val
          /\ prevSample' = prevSample
          /\ command_buf' = command_buf]_vars
  /\ [](Polling => inFlight = 0)
  /\ [](pc = "sendtoWait" => inFlight = 1)
  /\ (inFlight = 1) ~> (inFlight = 0 /\ pc # "sendtoWait")

\* The POTS frame of pot 2 is in flight; since the call started pot 2 was
\* turned back and button 1 was pressed, and neither has been looked at.
C13_Witness ==
  /\ pc = "sendtoWait"
  /\ inFlight = 1
  /\ events = <<PotEvent(2, 506)>>
  /\ val = 506
  /\ pot_value[2] = 506
  /\ rawPot[2] = 500
  /\ ~rawButton[1]
  /\ debouncer[1].unstable
  /\ debouncer[1].debounced

\* The positions of setup() from which loop() is still to be entered.
Starting == pc \in {"setup", "setup_led1", "setup_led2", "setup_led3"}

\* C14: the reads of setup() make each pot's reading its last-reported value
\* and nothing else: all through setup() the buffer is untouched and no frame
\* is handed to sendtoWait; the last-reported values still are the startup
\* samples when loop() is entered; and in the first iteration the pot check
\* of a channel sends a POTS frame exactly when the reading it takes is more
\* than 4 away from the channel's startup sample.
C14_StartupRead ==
  /\ [][(Leaves("setup") /\ pc' # "halt") =>
          /\ pot_value' = rawPot
          /\ startSample' = rawPot]_vars
  /\ [](Starting =>
          /\ tx = NoCall
          /\ inFlight = 0
          /\ events = <<>>
          /\ txSeq = <<>>
          /\ command_buf = ZeroBuf
          /\ lastPots = [c \in Channels |-> None])
  /\ []((iteration = "none" /\ pc \notin {"setup", "halt"}) => pot_value = startSample)
  /\ [][\A c \in Channels :
          (iteration = "first" /\ Leaves(PotPc(c))) =>
            /\ lastPots[c] = None
            /\ (Len(events') = Len(events) + 1) <=>
                 (rawPot[c] - startSample[c] > 4 \/ startSample[c] - rawPot[c] > 4)
            /\ (Len(events') = Len(events) + 1) =>
                 /\ pc' = "sendtoWait"
                 /\ Payload(tx'.frame) = Wire(POTS_TEXT, c, rawPot[c])
            /\ (Len(events') = Len(events)) =>
                 /\ pc' # "sendtoWait"
                 /\ tx' = tx
                 /\ pot_value'[c] = startSample[c]]_vars

\* Both pots read 500 in setup(); in the first iteration pot 1 read 504 and
\* nothing was sent for it, pot 2 read 506 and its frame is the first call.
C14_Witness ==
  /\ iteration = "first"
  /\ pc = "sendtoWait"
  /\ startSample = [c \in Channels |-> 500]
  /\ prevSample[1].last = 504
  /\ pot_value[1] = 500
  /\ events = <<PotEvent(2, 506)>>
  /\ lastResult = "none"

\* Bytes 11-14 of a buffer or frame.
ValueTail(buf) == SubSeq(buf, VALUE_OFFSET + 2, VALUE_OFFSET + 5)

\* C15: the MODE frame handed to sendtoWait for a fell-edge of channel c is
\* "MODE ", then c in 5 characters, then a NUL at byte 10; bytes 11-15 are
\* the bytes the buffer held before sendButton was called, so bytes 11-14
\* are those of the latest POTS frame built, of either channel, or zero when
\* none was built since startup.
C15_BufferReuse ==
  /\ [][\A c \in Channels :
          (Leaves(FellPc(c)) /\ pc' = "sendtoWait") =>
            /\ tx'.frame = command_buf'
            /\ Field(tx'.frame, 0) = MODE_TEXT
            /\ Field(tx'.frame, CHANNEL_OFFSET) = Dec5(c)
            /\ tx'.frame[VALUE_OFFSET + 1] = NUL
            /\ SubSeq(tx'.frame, VALUE_OFFSET + 2, COMMAND_BUF_LEN)
                 = SubSeq(command_buf, VALUE_OFFSET + 2, COMMAND_BUF_LEN)
            /\ ValueTail(tx'.frame) = potsTail]_vars
  /\ [][\A c \in Channels :
          (Leaves(PotPc(c)) /\ pc' = "sendtoWait") =>
            potsTail' = SubSeq(Dec5(rawPot[c]), 2, 5)]_vars
  /\ [](FrameOp(tx.frame) = "MODE" =>
          /\ tx.frame[VALUE_OFFSET + 1] = NUL
          /\ ValueTail(tx.frame) = potsTail)
  /\ [](lastResult = "none" /\ inFlight = 0 => potsTail = ZeroTail)

\* The MODE frame of button 2 is in flight after a POTS frame with reading
\* 506: its bytes 10-14 are NUL, " ", "5", "0", "6".
C15_Witness ==
  /\ pc = "sendtoWait"
  /\ events = <<ModeEvent(2)>>
  /\ Field(tx.frame, 0) = MODE_TEXT
  /\ Field(tx.frame, VALUE_OFFSET) = <<NUL, " ", "5", "0", "6">>
  /\ potsTail = <<" ", "5", "0", "6">>

\* The value of the latest POTS frame handed to sendtoWait for channel c, or
\* the reading taken in setup() when there was none.
Reported(c) == IF lastPots[c] = None THEN startSample[c] ELSE lastPots[c]

\* The latest sendtoWait call was for a POTS frame of channel c.
LatestPots(c) ==
  /\ FrameOp(tx.frame) = "POTS"
  /\ Field(tx.frame, CHANNEL_OFFSET) = Dec5(c)

\* C16: once setup() has read the pots, each channel's last-reported value
\* is the value field of the latest POTS frame handed to sendtoWait for the
\* channel, or the startup sample when there was none; it is stored when the
\* call starts and the return of the call, Delivered or Failed, leaves it
\* alone; so after a Failed POTS frame of a channel its next pot checks send
\* exactly when the reading is more than 4 away from the value that was lost.
C16_BaselineCommitted ==
  /\ [](pc \notin {"setup", "halt"} => \A c \in Channels : pot_value[c] = Reported(c))
  /\ [][\A c \in Channels :
          (Leaves(PotPc(c)) /\ pc' = "sendtoWait") =>
            /\ pot_value'[c] = rawPot[c]
            /\ Field(tx'.frame, VALUE_OFFSET) = Dec5(rawPot[c])
            /\ lastPots'[c] = rawPot[c]]_vars
  /\ [][Leaves("sendtoWait") => (pot_value' = pot_value /\ lastPots' = lastPots)]_vars
  /\ [][\A c \in Channels :
          (lastResult = "Failed" /\ LatestPots(c) /\ Leaves(PotPc(c))) =>
            /\ Field(tx.frame, VALUE_OFFSET) = Dec5(lastPots[c])
            /\ (pc' = "sendtoWait") <=>
                 (rawPot[c] - lastPots[c] > 4 \/ lastPots[c] - rawPot[c] > 4)]_vars

\* The frame of pot 1 with reading 506 failed; pot 1 then read 504, within 4
\* of the lost 506 though not of the startup sample 500, and nothing was sent.
C16_Witness ==
  /\ pc = "pot2"
  /\ lastResult = "Failed"
  /\ LatestPots(1)
  /\ lastPots[1] = 506
  /\ startSample[1] = 500
  /\ pot_value[1] = 506
  /\ val = 504
  /\ events = <<>>

\* Two readings are at most 4 apart.
Near(a, b) == a - b <= 4 /\ b - a <= 4

\* C17: right after the pot check of a channel its last-reported value is at
\* most 4 away from the reading the check took, and it stays so until the
\* next check; and when a pot creeps, each reading at most 4 from the one
\* before, the check at which the reading is for the first time more than 4
\* from the last-reported value produces a PotChanged event with that
\* reading and hands its frame to sendtoWait.
C17_BoundedStaleness ==
  /\ [][\A c \in Channels :
          Leaves(PotPc(c)) =>
            /\ val' = rawPot[c]
            /\ prevSample'[c].last = val'
            /\ Near(pot_value'[c], val')]_vars
  /\ [](\A c \in Channels :
          prevSample[c].last # None => Near(pot_value[c], prevSample[c].last))
  /\ [][\A c \in Channels :
          (Leaves(PotPc(c)) /\ prevSample[c].last # None
             /\ Near(prevSample[c].last, pot_value[c])
             /\ Near(rawPot[c], prevSample[c].last)
             /\ ~Near(rawPot[c], pot_value[c])) =>
            /\ events' = Append(events, PotEvent(c, rawPot[c]))
            /\ pc' = "sendtoWait"
            /\ Field(tx'.frame, VALUE_OFFSET) = Dec5(rawPot[c])
            /\ pot_value'[c] = rawPot[c]]_vars

\* Pot 1 read 500 in setup(), 504 at a check that sent nothing, and 506 at
\* the next one: 2 from the reading before, 6 from the last-reported 500,
\* and the frame with 506 is in flight.
C17_Witness ==
  /\ pc = "sendtoWait"
  /\ startSample[1] = 500
  /\ prevSample[1] = [last |-> 506, before |-> 504]
  /\ events = <<PotEvent(1, 506)>>
  /\ pot_value[1] = 506
  /\ lastResult = "none"

\* The arguments the encoder was called with for an event: the channel, and
\* for a POTS frame the value.
EncoderArgs(ev) == IF ev.op = "POTS" THEN {ev.channel, ev.value} ELSE {ev.channel}

\* C18: every sendtoWait call has length 16 and destination 2 and a frame of
\* 16 bytes whose byte 15 is NUL; the channel field reads 1 or 2 and the
\* value field of a POTS frame reads a number in 0..1023; every number given
\* to the encoder is an int that prints in at most 5 characters, and the
\* fields written hold the whole of the formatted text, nothing cut off.
C18_CallArguments ==
  /\ (inFlight > 0 \/ lastResult # "none") => tx # NoCall
  /\ tx # NoCall =>
       /\ tx.len = 16
       /\ tx.dest = 2
       /\ Len(tx.frame) = 16
       /\ tx.frame[16] = NUL
       /\ FrameOp(tx.frame) \in {"MODE", "POTS"}
       /\ ParseField(Field(tx.frame, CHANNEL_OFFSET)).ok
       /\ ParseField(Field(tx.frame, CHANNEL_OFFSET)).n \in {1, 2}
       /\ FrameOp(tx.frame) = "POTS" =>
            /\ ParseField(Field(tx.frame, VALUE_OFFSET)).ok
            /\ ParseField(Field(tx.frame, VALUE_OFFSET)).n \in 0..1023
  /\ Len(txSeq) = Len(events)
  /\ \A i \in 1..Len(events) :
       /\ events[i].channel \in {1, 2}
       /\ events[i].value \in 0..1023
       /\ \A n \in EncoderArgs(events[i]) : ToInt(n) = n /\ Len(IntChars(n)) <= 5
       /\ i <= Len(txSeq) =>
            /\ Len(txSeq[i]) = 16
            /\ txSeq[i][16] = NUL
            /\ Field(txSeq[i], CHANNEL_OFFSET) = PadLeft(IntChars(events[i].channel), 5)
            /\ events[i].op = "POTS" =>
                 Field(txSeq[i], VALUE_OFFSET) = PadLeft(IntChars(events[i].value), 5)

\* In one iteration button 1 fell and pot 2 was read at the top of the ADC
\* range: the frame "POTS " "    2" " 1023" is in flight, byte 15 NUL.
C18_Witness ==
  /\ pc = "sendtoWait"
  /\ events = <<ModeEvent(1), PotEvent(2, ADC_MAX)>>
  /\ tx.frame = <<"P", "O", "T", "S", " ", " ", " ", " ", " ", "2",
                  " ", "1", "0", "2", "3", NUL>>
  /\ tx.len = COMMAND_BUF_LEN
  /\ tx.dest = RECEIVER_ADDRESS

====
